---- MODULE Spec2Model ----
(***************************************************************************)
(* The zktrie Hash codec of core/types/zktrie/hash.go: a 32-byte value     *)
(* kept least-significant byte first, and its conversions to and from      *)
(* big integers, byte buffers, hexadecimal and decimal text.               *)
(*                                                                         *)
(* A byte is a number in 0..255, a string is a sequence of one-character   *)
(* strings, and a big.Int is a record [neg, abs] whose abs is the          *)
(* magnitude as a big-endian byte sequence without leading zeros, so that  *)
(* 256-bit values are computed exactly.                                    *)
(***************************************************************************)
EXTENDS Integers, Sequences, FiniteSets, TLC

\* ------------------------------------------------------------------------
\* Program constants
\* ------------------------------------------------------------------------

numCharPrint == 8

ElemBytesLen == 32

\* constants.Q of go-iden3-crypto, the order of the scalar field, as the
\* big-endian magnitude of a big.Int
Q ==
    <<48, 100, 78, 114, 225, 49, 160, 41, 184, 80, 69, 182, 129, 129, 88,
    93, 40, 51, 232, 72, 121, 185, 112, 145, 67, 225, 245, 147, 240, 0,
    0, 1>>

\* ------------------------------------------------------------------------
\* Bounds of the explored inputs
\* ------------------------------------------------------------------------

\* decimal inputs made of one repeated digit have 1..MaxDecLen digits
MaxDecLen == 10

\* byte buffers have ElemBytesLen - MaxLenDelta .. ElemBytesLen + MaxLenDelta
\* bytes (and 0 bytes)
MaxLenDelta == 1

\* ------------------------------------------------------------------------
\* math/big: natural numbers as normalised big-endian byte sequences
\* ------------------------------------------------------------------------

Digits == <<"0", "1", "2", "3", "4", "5", "6", "7", "8", "9">>

HexDigits == <<"0", "1", "2", "3", "4", "5", "6", "7", "8", "9",
               "a", "b", "c", "d", "e", "f">>

MinOf(S) == CHOOSE m \in S : \A x \in S : m <= x

\* nat.norm: drop the leading zero bytes
Norm(b) ==
    LET nz == {i \in 1..Len(b) : b[i] # 0}
    IN  IF nz = {} THEN <<>> ELSE SubSeq(b, MinOf(nz), Len(b))

\* nat.cmp of two normalised magnitudes: -1, 0 or 1
NatCmp(x, y) ==
    IF Len(x) # Len(y) THEN (IF Len(x) < Len(y) THEN -1 ELSE 1)
    ELSE LET d == {i \in 1..Len(x) : x[i] # y[i]}
         IN  IF d = {} THEN 0
             ELSE IF x[MinOf(d)] < y[MinOf(d)] THEN -1 ELSE 1

\* Decimal text is converted ChunkLen digits at a time, as math/big does
\* with the largest power of ten that fits a machine word.
ChunkLen == 6

Pow10 == <<1, 10, 100, 1000, 10000, 100000, 1000000>>

ChunkBase == Pow10[ChunkLen + 1]

\* one pass of long division of a magnitude by ChunkBase, most significant
\* byte first: the quotient bytes and the remainder
\* (in the recursive operators below the test Len(acc) >= 0 is always true;
\* it makes TLC compute the accumulator at each step instead of stacking
\* unevaluated expressions)
RECURSIVE DivW(_, _, _, _)
DivW(x, i, r, acc) ==
    IF i > Len(x) THEN [q |-> acc, r |-> r]
    ELSE IF Len(acc) >= 0
         THEN DivW(x, i + 1, (r * 256 + x[i]) % ChunkBase,
                   Append(acc, (r * 256 + x[i]) \div ChunkBase))
         ELSE [q |-> acc, r |-> r]

\* the ChunkLen decimal digits of r < ChunkBase, zero-padded
ChunkDigits(r) ==
    [j \in 1..ChunkLen |-> Digits[((r \div Pow10[ChunkLen + 1 - j]) % 10) + 1]]

\* the decimal digits of a magnitude in whole chunks, prepended to acc
RECURSIVE NatChunks(_, _)
NatChunks(x, acc) ==
    IF x = <<>> THEN acc
    ELSE IF Len(acc) >= 0
         THEN LET d == DivW(x, 1, 0, <<>>)
              IN  NatChunks(Norm(d.q), ChunkDigits(d.r) \o acc)
         ELSE acc

\* nat.utoa: the decimal digits of a non-zero magnitude, without leading
\* zeros
NatDigits(x) ==
    LET ds == NatChunks(x, <<>>)
    IN  SubSeq(ds, MinOf({i \in 1..Len(ds) : ds[i] # "0"}), Len(ds))

\* x * ChunkBase + c on a magnitude, least significant byte first; the last
\* carry is below ChunkBase and fills up to three bytes
RECURSIVE MulAddW(_, _, _, _)
MulAddW(x, i, c, acc) ==
    IF i = 0
    THEN Norm(<<c \div 65536, (c \div 256) % 256, c % 256>>) \o acc
    ELSE IF Len(acc) >= 0
         THEN MulAddW(x, i - 1, (x[i] * ChunkBase + c) \div 256,
                      <<(x[i] * ChunkBase + c) % 256>> \o acc)
         ELSE acc

IsDigit(c) == \E d \in 1..10 : Digits[d] = c

DigitVal(c) == (CHOOSE d \in 1..10 : Digits[d] = c) - 1

\* the number written by the digits s[i..j], at most ChunkLen of them
RECURSIVE ChunkVal(_, _, _)
ChunkVal(s, i, j) ==
    IF i > j THEN 0 ELSE ChunkVal(s, i, j - 1) * 10 + DigitVal(s[j])

\* nat.scan: the magnitude written by the decimal digits s[i..], the first
\* chunk taking the digits that do not fill a whole chunk
RECURSIVE ScanDigits(_, _, _)
ScanDigits(s, i, acc) ==
    IF i > Len(s) THEN acc
    ELSE IF Len(acc) >= 0
         THEN LET j == i + ((Len(s) - i) % ChunkLen)
              IN  ScanDigits(s, j + 1,
                     Norm(MulAddW(acc, Len(acc), ChunkVal(s, i, j), <<>>)))
         ELSE acc

NilInt == [neg |-> FALSE, abs |-> <<>>]

\* new(big.Int).SetBytes(b): b read as a big-endian unsigned integer
SetBytes(b) == [neg |-> FALSE, abs |-> Norm(b)]

\* (*big.Int).Bytes(): the absolute value as minimal big-endian bytes
IntBytes(n) == n.abs

\* (*big.Int).String(): the decimal text, "0" for zero, "-" before a
\* negative value
IntString(n) ==
    IF n.abs = <<>> THEN <<"0">>
    ELSE (IF n.neg THEN <<"-">> ELSE <<>>) \o NatDigits(n.abs)

\* new(big.Int).SetString(s, 10): an optional sign and one or more decimal
\* digits, nothing else; ok is FALSE when s is anything else
SetString(s) ==
    LET signed == Len(s) > 0 /\ s[1] \in {"+", "-"}
        body   == IF signed THEN Tail(s) ELSE s
        good   == Len(body) > 0 /\ \A i \in 1..Len(body) : IsDigit(body[i])
        mag    == ScanDigits(body, 1, <<>>)
    IN  IF ~good THEN [ok |-> FALSE, val |-> NilInt]
        ELSE [ok |-> TRUE,
              val |-> [neg |-> (signed /\ s[1] = "-" /\ mag # <<>>),
                       abs |-> mag]]

\* (*big.Int).Cmp
Cmp(a, b) ==
    IF a.neg # b.neg THEN (IF a.neg THEN -1 ELSE 1)
    ELSE IF a.neg THEN 0 - NatCmp(a.abs, b.abs) ELSE NatCmp(a.abs, b.abs)

\* faulty variant: the bound Q itself passes: a.Cmp(Q) != 1
CheckBigIntInField_Inclusive(a) == Cmp(a, [neg |-> FALSE, abs |-> Q]) # 1

\* utils.CheckBigIntInField of go-iden3-crypto: a.Cmp(Q) == -1
CheckBigIntInField(a) == Cmp(a, [neg |-> FALSE, abs |-> Q]) = -1

\* hex.EncodeToString: two lowercase digits per byte
EncodeToString(b) ==
    [i \in 1..(2 * Len(b)) |->
        IF i % 2 = 1 THEN HexDigits[(b[(i + 1) \div 2] \div 16) + 1]
        ELSE HexDigits[(b[i \div 2] % 16) + 1]]

\* ------------------------------------------------------------------------
\* core/types/zktrie/hash.go
\* ------------------------------------------------------------------------

\* var HashZero = Hash{}
HashZero == [i \in 1..ElemBytesLen |-> 0]

\* a nil *Hash
NilHash == <<>>

\* copy(dst[:], src) into a zero Hash: the first min(32, len(src)) bytes of
\* src, the rest left zero
CopyToHash(src) ==
    [i \in 1..ElemBytesLen |-> IF i <= Len(src) THEN src[i] ELSE 0]

ReverseByteOrder(b) ==
    IF Len(b) = 0 THEN <<>> ELSE [i \in 1..Len(b) |-> b[Len(b) + 1 - i]]

BigInt(h) == SetBytes(ReverseByteOrder(h))

MarshalText(h) == IntString(BigInt(h))

\* faulty variant: truncation only above numCharPrint characters
String_Inclusive(h) ==
    LET s == IntString(BigInt(h))
    IN  IF Len(s) <= numCharPrint THEN s
        ELSE SubSeq(s, 1, numCharPrint) \o <<".", ".", ".">>

\* faulty variant: the kept prefix is one character short
String_ShortPrefix(h) ==
    LET s == IntString(BigInt(h))
    IN  IF Len(s) < numCharPrint THEN s
        ELSE SubSeq(s, 1, numCharPrint - 1) \o <<".", ".", ".">>

String(h) ==
    LET s == IntString(BigInt(h))
    IN  IF Len(s) < numCharPrint THEN s
        ELSE SubSeq(s, 1, numCharPrint) \o <<".", ".", ".">>

Hex(h) == EncodeToString(h)

\* faulty variant: the copy is returned without the byte swap
Bytes_NoReverse(h) == CopyToHash(h)

Bytes(h) == ReverseByteOrder(CopyToHash(h))

NewBigIntFromHashBytes(b) ==
    IF Len(b) # ElemBytesLen
    THEN [err |-> "expected 32 bytes", int |-> NilInt]
    ELSE LET bi == SetBytes(SubSeq(b, 1, ElemBytesLen))
         IN  IF ~CheckBigIntInField(bi)
             THEN [err |-> "Value not inside the Finite Field", int |-> NilInt]
             ELSE [err |-> "nil", int |-> bi]

\* faulty variant: the big-endian bytes are stored without the byte swap
NewHashFromBigInt_NoReverse(b) == CopyToHash(IntBytes(b))

NewHashFromBigInt(b) == CopyToHash(ReverseByteOrder(IntBytes(b)))

\* faulty variant: the length of b is not checked
NewHashFromBytes_NoLenCheck(b) ==
    [err |-> "nil", hash |-> CopyToHash(ReverseByteOrder(b))]

\* faulty variant: b is stored without the byte swap
NewHashFromBytes_NoReverse(b) ==
    IF Len(b) # ElemBytesLen
    THEN [err |-> "expected 32 bytes", hash |-> NilHash]
    ELSE [err |-> "nil", hash |-> CopyToHash(b)]

NewHashFromBytes(b) ==
    IF Len(b) # ElemBytesLen
    THEN [err |-> "expected 32 bytes", hash |-> NilHash]
    ELSE [err |-> "nil", hash |-> CopyToHash(ReverseByteOrder(b))]

IsHexDigit(c) ==
    \/ \E d \in 1..16 : HexDigits[d] = c
    \/ c \in {"A", "B", "C", "D", "E", "F"}

HexVal(c) ==
    IF c \in {"A", "B", "C", "D", "E", "F"}
    THEN (CHOOSE d \in 11..16 :
            HexDigits[d] = <<"a", "b", "c", "d", "e", "f">>[
               CHOOSE k \in 1..6 : <<"A", "B", "C", "D", "E", "F">>[k] = c]) - 1
    ELSE (CHOOSE d \in 1..16 : HexDigits[d] = c) - 1

\* s without a leading "0x"
TrimHexPrefix(s) ==
    IF Len(s) >= 2 /\ s[1] = "0" /\ s[2] = "x" THEN SubSeq(s, 3, Len(s)) ELSE s

\* common.FromHex: the bytes written by a hexadecimal string, with or
\* without "0x"; text that is not an even number of hexadecimal digits
\* decodes to no bytes
FromHex(s) ==
    LET t == TrimHexPrefix(s)
    IN  IF Len(t) % 2 = 1 \/ Len(t) = 0
           \/ \E i \in 1..Len(t) : ~IsHexDigit(t[i])
        THEN <<>>
        ELSE [i \in 1..(Len(t) \div 2) |->
                 HexVal(t[2 * i - 1]) * 16 + HexVal(t[2 * i])]

\* faulty variant: the decoded bytes are passed on without the byte swap
NewHashFromHex_NoReverse(s) == NewHashFromBytes(FromHex(s))

NewHashFromHex(s) == NewHashFromBytes(ReverseByteOrder(FromHex(s)))

NewHashFromString(s) ==
    LET p == SetString(s)
    IN  IF ~p.ok
        THEN [err |-> "can not parse string to Hash", hash |-> NilHash]
        ELSE [err |-> "nil", hash |-> NewHashFromBigInt(p.val)]

\* ha, err := NewHashFromString(string(b)); copy(h[:], ha[:]): slicing the
\* nil ha of a failed parse dereferences a nil pointer and panics before
\* err is returned
UnmarshalText(h, b) ==
    LET r == NewHashFromString(b)
    IN  IF r.hash = NilHash
        THEN [panic |-> TRUE, h |-> h, err |-> r.err]
        ELSE [panic |-> FALSE, h |-> CopyToHash(r.hash), err |-> r.err]

\* ------------------------------------------------------------------------
\* Inputs
\* ------------------------------------------------------------------------

QMinusOne ==
    <<48, 100, 78, 114, 225, 49, 160, 41, 184, 80, 69, 182, 129, 129, 88,
    93, 40, 51, 232, 72, 121, 185, 112, 145, 67, 225, 245, 147, 240, 0,
    0, 0>>

QPlusOne ==
    <<48, 100, 78, 114, 225, 49, 160, 41, 184, 80, 69, 182, 129, 129, 88,
    93, 40, 51, 232, 72, 121, 185, 112, 145, 67, 225, 245, 147, 240, 0,
    0, 2>>

\* 4932297968...154854 of TestHashParsers, big-endian
Sample ==
    <<10, 231, 148, 235, 156, 61, 139, 187, 144, 2, 233, 147, 252, 46,
    211, 1, 220, 189, 42, 245, 80, 142, 208, 114, 195, 117, 232, 97, 241,
    170, 91, 38>>

SampleText ==
    <<"4", "9", "3", "2", "2", "9", "7", "9", "6", "8", "2", "9", "7",
    "2", "9", "8", "4", "3", "4", "2", "3", "9", "2", "7", "0", "1", "2",
    "9", "1", "9", "3", "0", "5", "7", "0", "5", "2", "7", "2", "2", "4",
    "0", "9", "8", "6", "8", "2", "6", "8", "1", "6", "6", "4", "4", "3",
    "8", "0", "2", "6", "5", "2", "4", "5", "8", "9", "4", "0", "2", "7",
    "3", "1", "5", "4", "8", "5", "4">>

SampleHex ==
    <<"2", "6", "5", "b", "a", "a", "f", "1", "6", "1", "e", "8", "7",
    "5", "c", "3", "7", "2", "d", "0", "8", "e", "5", "0", "f", "5", "2",
    "a", "b", "d", "d", "c", "0", "1", "d", "3", "2", "e", "f", "c", "9",
    "3", "e", "9", "0", "2", "9", "0", "b", "b", "8", "b", "3", "d", "9",
    "c", "e", "b", "9", "4", "e", "7", "0", "a">>

QText ==
    <<"2", "1", "8", "8", "8", "2", "4", "2", "8", "7", "1", "8", "3",
    "9", "2", "7", "5", "2", "2", "2", "2", "4", "6", "4", "0", "5", "7",
    "4", "5", "2", "5", "7", "2", "7", "5", "0", "8", "8", "5", "4", "8",
    "3", "6", "4", "4", "0", "0", "4", "1", "6", "0", "3", "4", "3", "4",
    "3", "6", "9", "8", "2", "0", "4", "1", "8", "6", "5", "7", "5", "8",
    "0", "8", "4", "9", "5", "6", "1", "7">>

QMinusOneText ==
    <<"2", "1", "8", "8", "8", "2", "4", "2", "8", "7", "1", "8", "3",
    "9", "2", "7", "5", "2", "2", "2", "2", "4", "6", "4", "0", "5", "7",
    "4", "5", "2", "5", "7", "2", "7", "5", "0", "8", "8", "5", "4", "8",
    "3", "6", "4", "4", "0", "0", "4", "1", "6", "0", "3", "4", "3", "4",
    "3", "6", "9", "8", "2", "0", "4", "1", "8", "6", "5", "7", "5", "8",
    "0", "8", "4", "9", "5", "6", "1", "6">>

\* 2^256 + 5
OverflowText ==
    <<"1", "1", "5", "7", "9", "2", "0", "8", "9", "2", "3", "7", "3",
    "1", "6", "1", "9", "5", "4", "2", "3", "5", "7", "0", "9", "8", "5",
    "0", "0", "8", "6", "8", "7", "9", "0", "7", "8", "5", "3", "2", "6",
    "9", "9", "8", "4", "6", "6", "5", "6", "4", "0", "5", "6", "4", "0",
    "3", "9", "4", "5", "7", "5", "8", "4", "0", "0", "7", "9", "1", "3",
    "1", "2", "9", "6", "3", "9", "9", "4", "1">>

Rep(c, n) == [i \in 1..n |-> c]

Unit(p, v, n) == [i \in 1..n |-> IF i = p THEN v ELSE 0]

PadTo32(x) ==
    [i \in 1..ElemBytesLen |->
        IF i <= ElemBytesLen - Len(x) THEN 0 ELSE x[i - (ElemBytesLen - Len(x))]]

DecInputs ==
    {Rep(d, n) : d \in {"1", "9"}, n \in 1..MaxDecLen}
    \cup {<<"0">>, <<"1", "0">>,
          <<"1", "2", "3", "4", "5", "6", "7">>,
          <<"1", "2", "3", "4", "5", "6", "7", "8">>,
          SampleText, QText, QMinusOneText, OverflowText,
          <<"-", "1">>, <<"+", "7">>, <<"-", "0">>,
          <<>>, <<"-">>, <<"1", "2", "a">>, <<"0", "x", "1", "0">>,
          <<"1", "_", "0">>, <<" ", "1">>}

IntInputs == {SetString(s).val : s \in {t \in DecInputs : SetString(t).ok}}

BufLens ==
    {0} \cup ((ElemBytesLen - MaxLenDelta)..(ElemBytesLen + MaxLenDelta))

ByteInputs ==
    {Unit(p, v, n) : p \in {1, ElemBytesLen - MaxLenDelta}, v \in {1, 48, 255},
                     n \in BufLens \ {0}}
    \cup {<<>>, Q, QMinusOne, QPlusOne, Sample, Rep(255, ElemBytesLen),
          Rep(0, ElemBytesLen)}
    \cup {PadTo32(n.abs) : n \in {m \in IntInputs : Len(m.abs) <= ElemBytesLen}}
    \cup {IntBytes(n) : n \in IntInputs}

HexSeeds ==
    {HashZero, ReverseByteOrder(Sample), ReverseByteOrder(Q),
     Unit(1, 1, ElemBytesLen), Unit(ElemBytesLen, 255, ElemBytesLen),
     Rep(255, ElemBytesLen)}

HexInputs ==
    UNION {LET x == Hex(sd)
           IN  {x, <<"0", "x">> \o x,
                SubSeq(x, 1, Len(x) - 1), SubSeq(x, 1, Len(x) - 2),
                x \o <<"0", "0">>, x \o <<"z", "z">>,
                [x EXCEPT ![5] = "g"], <<"0", "x">> \o SubSeq(x, 2, Len(x))}
           : sd \in HexSeeds}
    \cup {<<>>, <<"0", "x">>, <<"1", "2">>, <<"0", "x", "1", "2">>,
          <<"x", "y">>}

\* ------------------------------------------------------------------------
\* State: a caller that holds one input and a *Hash, and the outcome of its
\* last call
\* ------------------------------------------------------------------------

VARIABLES
    argB,      \* the caller's []byte input
    argS,      \* the caller's string input
    argN,      \* the caller's *big.Int input
    kind,      \* which of the three inputs the caller holds
    h,         \* the caller's Hash, NilHash when the last constructor failed
    op,        \* the function called last
    res,       \* what it returned
    panicked   \* the call panicked

vars == <<argB, argS, argN, kind, h, op, res, panicked>>

Res(e, hs, n, s, b) == [err |-> e, hash |-> hs, int |-> n, str |-> s, bytes |-> b]

NoRes == Res("nil", NilHash, NilInt, <<>>, <<>>)

Init ==
    /\ \/ kind = "bytes" /\ argB \in ByteInputs /\ argS = <<>> /\ argN = NilInt
       \/ kind = "hex" /\ argB = <<>> /\ argS \in HexInputs /\ argN = NilInt
       \/ kind = "decimal" /\ argB = <<>> /\ argS \in DecInputs /\ argN = NilInt
       \/ kind = "int" /\ argB = <<>> /\ argS = <<>> /\ argN \in IntInputs
    /\ h = HashZero
    /\ op = "none"
    /\ res = NoRes
    /\ panicked = FALSE

args == <<argB, argS, argN, kind>>

CallMarshalText ==
    /\ ~panicked /\ h # NilHash
    /\ op' = "MarshalText"
    /\ res' = Res("nil", NilHash, NilInt, MarshalText(h), <<>>)
    /\ UNCHANGED <<args, h, panicked>>

CallUnmarshalText ==
    /\ ~panicked /\ h # NilHash
    /\ kind = "decimal"
    /\ LET r == UnmarshalText(h, argS)
       IN  /\ op' = "UnmarshalText"
           /\ panicked' = r.panic
           /\ h' = r.h
           /\ res' = IF r.panic THEN NoRes
                     ELSE Res(r.err, NilHash, NilInt, <<>>, <<>>)
    /\ UNCHANGED args

CallString ==
    /\ ~panicked /\ h # NilHash
    /\ op' = "String"
    /\ res' = Res("nil", NilHash, NilInt, String(h), <<>>)
    /\ UNCHANGED <<args, h, panicked>>

CallHex ==
    /\ ~panicked /\ h # NilHash
    /\ op' = "Hex"
    /\ res' = Res("nil", NilHash, NilInt, Hex(h), <<>>)
    /\ UNCHANGED <<args, h, panicked>>

CallBigInt ==
    /\ ~panicked /\ h # NilHash
    /\ op' = "BigInt"
    /\ res' = Res("nil", NilHash, BigInt(h), <<>>, <<>>)
    /\ UNCHANGED <<args, h, panicked>>

CallBytes ==
    /\ ~panicked /\ h # NilHash
    /\ op' = "Bytes"
    /\ res' = Res("nil", NilHash, NilInt, <<>>, Bytes(h))
    /\ UNCHANGED <<args, h, panicked>>

CallNewBigIntFromHashBytes ==
    /\ ~panicked
    /\ kind = "bytes"
    /\ LET r == NewBigIntFromHashBytes(argB)
       IN  /\ op' = "NewBigIntFromHashBytes"
           /\ res' = Res(r.err, NilHash, r.int, <<>>, <<>>)
    /\ UNCHANGED <<args, h, panicked>>

CallNewHashFromBigInt ==
    /\ ~panicked
    /\ kind = "int"
    /\ op' = "NewHashFromBigInt"
    /\ h' = NewHashFromBigInt(argN)
    /\ res' = Res("nil", NewHashFromBigInt(argN), NilInt, <<>>, <<>>)
    /\ UNCHANGED <<args, panicked>>

CallNewHashFromBytes ==
    /\ ~panicked
    /\ kind = "bytes"
    /\ LET r == NewHashFromBytes(argB)
       IN  /\ op' = "NewHashFromBytes"
           /\ h' = r.hash
           /\ res' = Res(r.err, r.hash, NilInt, <<>>, <<>>)
    /\ UNCHANGED <<args, panicked>>

CallNewHashFromHex ==
    /\ ~panicked
    /\ kind = "hex"
    /\ LET r == NewHashFromHex(argS)
       IN  /\ op' = "NewHashFromHex"
           /\ h' = r.hash
           /\ res' = Res(r.err, r.hash, NilInt, <<>>, <<>>)
    /\ UNCHANGED <<args, panicked>>

CallNewHashFromString ==
    /\ ~panicked
    /\ kind = "decimal"
    /\ LET r == NewHashFromString(argS)
       IN  /\ op' = "NewHashFromString"
           /\ h' = r.hash
           /\ res' = Res(r.err, r.hash, NilInt, <<>>, <<>>)
    /\ UNCHANGED <<args, panicked>>

Next ==
    \/ CallMarshalText
    \/ CallUnmarshalText
    \/ CallString
    \/ CallHex
    \/ CallBigInt
    \/ CallBytes
    \/ CallNewBigIntFromHashBytes
    \/ CallNewHashFromBigInt
    \/ CallNewHashFromBytes
    \/ CallNewHashFromHex
    \/ CallNewHashFromString

Spec == Init /\ [][Next]_vars

\* ------------------------------------------------------------------------
\* Properties
\* ------------------------------------------------------------------------

InField(n) == ~n.neg /\ NatCmp(n.abs, Q) = -1

Ellipsis == <<".", ".", ".">>

\* C1: for every integer n with 0 <= n < Q, NewHashFromBigInt(n).BigInt()
\* equals n, the boundary values 0, 1 and Q - 1 included.
C1_IntegerRoundTrip ==
    (op = "NewHashFromBigInt" /\ InField(argN)) => BigInt(h) = argN

C1_Witness ==
    /\ op = "NewHashFromBigInt"
    /\ argN.abs = QMinusOne
    /\ BigInt(h) = argN

\* C2: for every 32-byte buffer b, NewHashFromBytes(b) succeeds and its
\* Bytes() equals b; for every Hash h, NewHashFromBytes(h.Bytes()) succeeds
\* and returns a Hash equal to h byte for byte.
C2_ByteRoundTrip ==
    /\ (op = "NewHashFromBytes" /\ Len(argB) = 32) =>
          (res.err = "nil" /\ Bytes(h) = argB)
    /\ op = "Bytes" =>
          LET r == NewHashFromBytes(res.bytes)
          IN  r.err = "nil" /\ r.hash = h

C2_Witness ==
    /\ op = "NewHashFromBytes"
    /\ argB = Sample
    /\ Bytes(h) = Sample

\* C3: for every Hash h, h.Hex() is the 64-character lowercase hexadecimal
\* encoding of the raw storage bytes, and NewHashFromHex(h.Hex()) succeeds
\* and returns a Hash equal to h byte for byte.
C3_HexRoundTrip ==
    op = "Hex" =>
        /\ Len(res.str) = 64
        /\ \A i \in 1..Len(res.str) : \E d \in 1..16 : HexDigits[d] = res.str[i]
        /\ \A k \in 1..32 :
              HexVal(res.str[2 * k - 1]) * 16 + HexVal(res.str[2 * k]) = h[k]
        /\ LET r == NewHashFromHex(res.str)
           IN  r.err = "nil" /\ r.hash = h

C3_Witness ==
    /\ op = "Hex"
    /\ h = ReverseByteOrder(Sample)
    /\ res.str = SampleHex

\* C4: whenever NewHashFromBytes, NewHashFromHex, NewHashFromString or
\* UnmarshalText succeeds, the integer decoded from the resulting Hash is in
\* [0, Q); a decimal literal that is negative or >= Q is rejected with an
\* error.
C4_FieldMembership ==
    /\ (/\ op \in {"NewHashFromBytes", "NewHashFromHex", "NewHashFromString",
                   "UnmarshalText"}
        /\ ~panicked
        /\ res.err = "nil") => InField(BigInt(h))
    /\ (/\ op \in {"NewHashFromString", "UnmarshalText"}
        /\ SetString(argS).ok
        /\ ~InField(SetString(argS).val)) => (~panicked /\ res.err # "nil")

\* the text s is not 64 hexadecimal digits after an optional "0x": it has
\* an odd number of digits, a character that is no hexadecimal digit, or
\* does not write exactly 32 bytes
HexMalformed(s) ==
    LET t == TrimHexPrefix(s)
    IN  \/ Len(t) % 2 = 1
        \/ \E i \in 1..Len(t) : ~IsHexDigit(t[i])
        \/ Len(t) # 64

C7_UnmarshalRejects ==
    (op = "UnmarshalText" /\ ~SetString(argS).ok) =>
        (~panicked /\ res.err # "nil")

\* C8 as stated: if the decimal string of h's integer has 8 characters or
\* fewer, String() returns it verbatim; otherwise the first 8 characters
\* followed by "...".
C8_Original ==
    op = "String" =>
        LET s == IntString(BigInt(h))
        IN  res.str = IF Len(s) <= 8 THEN s ELSE SubSeq(s, 1, 8) \o Ellipsis

\* C8 amended: if the decimal string of h's integer has fewer than 8
\* characters, String() returns it verbatim; otherwise (8 characters or
\* more) the first 8 characters followed by "...".
C8_Truncation ==
    op = "String" =>
        LET s == IntString(BigInt(h))
        IN  res.str = IF Len(s) < 8 THEN s ELSE SubSeq(s, 1, 8) \o Ellipsis

C8_Witness ==
    /\ op = "String"
    /\ Len(IntString(BigInt(h))) = 8
    /\ res.str = IntString(BigInt(h)) \o Ellipsis

\* C9: String() of the Hash of 0, 1, 10 and 1234567 is the full decimal
\* string; of 12345678 it is "12345678..." and of the 76-digit sample
\* "49322979...".
C9_TestedDisplay ==
    op = "String" =>
        /\ h = HashZero => res.str = <<"0">>
        /\ BigInt(h).abs = <<1>> => res.str = <<"1">>
        /\ BigInt(h).abs = <<10>> => res.str = <<"1", "0">>
        /\ BigInt(h).abs = <<18, 214, 135>> =>
              res.str = <<"1", "2", "3", "4", "5", "6", "7">>
        /\ BigInt(h).abs = <<188, 97, 78>> =>
              res.str = <<"1", "2", "3", "4", "5", "6", "7", "8", ".", ".", ".">>
        /\ BigInt(h).abs = Sample =>
              res.str = <<"4", "9", "3", "2", "2", "9", "7", "9", ".", ".", ".">>

C9_Witness ==
    /\ op = "String"
    /\ kind = "int"
    /\ BigInt(h).abs = <<188, 97, 78>>
    /\ res.str = <<"1", "2", "3", "4", "5", "6", "7", "8", ".", ".", ".">>

\* C10 as stated: NewHashFromBytes(b) stores an unreversed copy of b: the
\* storage bytes equal b position by position, Hex() is the hex encoding of
\* b and the integer value is the little-endian decoding of b.
C10_Original ==
    (op = "NewHashFromBytes" /\ res.err = "nil") =>
        /\ h = argB
        /\ Hex(h) = EncodeToString(argB)
        /\ BigInt(h) = SetBytes(ReverseByteOrder(argB))

\* C10 amended: NewHashFromBytes(b) stores the byte-reversed copy of b:
\* storage byte i equals b[31 - i], Hex() is the hex encoding of b reversed
\* and the integer value is the big-endian decoding of b.
C10_StoresReversed ==
    (op = "NewHashFromBytes" /\ res.err = "nil") =>
        /\ \A i \in 1..32 : h[i] = argB[33 - i]
        /\ Hex(h) = EncodeToString(ReverseByteOrder(argB))
        /\ BigInt(h) = [neg |-> FALSE, abs |-> Norm(argB)]

C10_Witness ==
    /\ op = "NewHashFromBytes"
    /\ argB = Sample
    /\ Hex(h) = SampleHex
====
